---------------------------- MODULE Spec2Model ----------------------------
(***************************************************************************)
(* A model of bevy_svg's SVG document walk (src/src/svg.rs):               *)
(*                                                                         *)
(*   - PathConvIter, the iterator that turns usvg path segments into lyon  *)
(*     path events (ConvSpec);                                             *)
(*   - concat, the composition of two usvg transforms with its fast path   *)
(*     for skew-free operands (ConcatSpec);                                *)
(*   - SvgBuilder::build / render_node / render_group, the tree walk that  *)
(*     collects the path descriptors (WalkSpec).                           *)
(*                                                                         *)
(* Coordinates and transform coefficients are small integers: f64 and f32  *)
(* arithmetic is exact on them, so `as f32` casts keep their value and     *)
(* usvg's fuzzy equality coincides with equality.                          *)
(***************************************************************************)
EXTENDS Integers, Sequences, FiniteSets, TLC

VARIABLES
    \* ---- PathConvIter (svg.rs:315-321) and its caller's collect() ----
    cmds,        \* the usvg path data the iterator walks (p.data)
    idx,         \* number of segments self.iter has already yielded
    prev,        \* PathConvIter.prev
    first,       \* PathConvIter.first
    needs_end,   \* PathConvIter.needs_end
    deferred,    \* PathConvIter.deferred
    events,      \* the events next() has returned so far, in order
    ended,       \* next() has returned None at least once
    \* ---- concat (svg.rs:178-199) ----
    ta,          \* the accumulator `a` before the call
    tb,          \* the argument `b`
    tr,          \* the accumulator `a` after the call
    called,      \* concat has run
    \* ---- SvgBuilder::build (svg.rs:81-127) ----
    tree,        \* the usvg tree, its nodes in document order
    view_ts,     \* what view_box_to_transform returned
    cursor,      \* position of the `for node in root.descendants()` loop
    transform,   \* the running `transform` local of build
    descriptors, \* the `descriptors` vector
    calls,       \* every render_node call made so far (history)
    built,       \* the Svg value has been constructed
    \* ---- SvgBuilder (svg.rs:41-127) ----
    file,        \* SvgBuilder.file
    origin,      \* SvgBuilder.origin
    translation, \* SvgBuilder.translation
    scale,       \* SvgBuilder.scale
    setters,     \* the builder methods called since from_file (history)
    io,          \* what std::fs::read and usvg::Tree::from_data returned
    outcome,     \* how build() ended
    \* ---- SvgAssetLoader::load (loader.rs:12-43) ----
    path,        \* load_context.path()
    bytes,       \* what usvg::Tree::from_data makes of `bytes`
    asset,       \* the default asset of load_context
    result       \* what load() returned

convVars   == <<cmds, idx, prev, first, needs_end, deferred, events, ended>>
concatVars == <<ta, tb, tr, called>>
walkVars   == <<tree, view_ts, cursor, transform, descriptors, calls, built>>
builderVars == <<file, origin, translation, scale, setters, io, outcome>>
loaderVars == <<path, bytes, asset, result>>
vars       == <<convVars, concatVars, walkVars, builderVars, loaderVars>>

(***************************************************************************)
(* Bounds.                                                                 *)
(***************************************************************************)
MaxCmds == 4      \* longest path data handed to the converter

Last(s) == s[Len(s)]

(***************************************************************************)
(* Path segments (usvg::PathSegment) and path events (lyon PathEvent).     *)
(***************************************************************************)
MoveTo(p)          == [kind |-> "MoveTo", x |-> p[1], y |-> p[2]]
LineTo(p)          == [kind |-> "LineTo", x |-> p[1], y |-> p[2]]
CurveTo(c1, c2, p) == [kind |-> "CurveTo", x1 |-> c1[1], y1 |-> c1[2],
                       x2 |-> c2[1], y2 |-> c2[2], x |-> p[1], y |-> p[2]]
ClosePath          == [kind |-> "ClosePath"]

Begin(at)             == [type |-> "Begin", at |-> at]
Line(from, to)        == [type |-> "Line", from |-> from, to |-> to]
Cubic(from, c1, c2, to) == [type |-> "Cubic", from |-> from, ctrl1 |-> c1,
                            ctrl2 |-> c2, to |-> to]
End(last, fst, close) == [type |-> "End", last |-> last, first |-> fst,
                          close |-> close]
None                  == [type |-> "None"]

\* fn point(x: &f64, y: &f64) -> Point: the casts are exact on the model's
\* coordinates.
point(x, y) == <<x, y>>

\* The inputs: where a subpath may start, where a line or a curve may end,
\* and the control points of a curve.
MovePoints  == {<<0, 0>>, <<5, 5>>}
LinePoints  == {<<1, 0>>, <<1, 1>>, <<6, 5>>}
CurvePoints == {<<2, 2>>}
Ctrl1       == <<3, 0>>
Ctrl2       == <<3, 1>>

Segments ==
    {MoveTo(p) : p \in MovePoints} \cup {LineTo(p) : p \in LinePoints}
    \cup {CurveTo(Ctrl1, Ctrl2, p) : p \in CurvePoints} \cup {ClosePath}

\* usvg path data always starts with a MoveTo.
SeqsUpTo(S, n) == UNION {[1..k -> S] : k \in 0..n}
PathDatas ==
    {<<MoveTo(p)>> \o s : p \in MovePoints, s \in SeqsUpTo(Segments, MaxCmds - 1)}

(***************************************************************************)
(* PathConvIter as a value: [idx, prev, first, needs_end, deferred], where *)
(* idx is the position of self.iter in the path data.                      *)
(***************************************************************************)

\* fn convert_path(p) -> PathConvIter: a fresh iterator over p.data.
convert_path ==
    [idx |-> 0, first |-> <<0, 0>>, prev |-> <<0, 0>>, deferred |-> None,
     needs_end |-> FALSE]

\* Each arm of next() maps the iterator to [it |-> the iterator afterwards,
\* out |-> the value returned]; a None return is out = None.

\* arm_deferred that returns the deferred event and leaves it in the slot.
arm_deferred_keeps_slot(it) ==
    [it |-> it, out |-> it.deferred]

\* if self.deferred.is_some() { return self.deferred.take(); }
arm_deferred(it) ==
    [it |-> [it EXCEPT !.deferred = None], out |-> it.deferred]

\* arm_move_to whose hand-over leaves `first` at the abandoned subpath.
arm_move_to_keeps_first(it, x, y) ==
    IF it.needs_end
    THEN LET p == point(x, y)
         IN  [it  |-> [it EXCEPT !.needs_end = FALSE, !.prev = p,
                                 !.deferred = Begin(p)],
              out |-> End(it.prev, it.first, FALSE)]
    ELSE [it  |-> [it EXCEPT !.first = point(x, y)],
          out |-> Begin(point(x, y))]

\* Some(MoveTo { x, y })
arm_move_to(it, x, y) ==
    IF it.needs_end
    THEN LET p == point(x, y)
         IN  [it  |-> [it EXCEPT !.needs_end = FALSE, !.prev = p,
                                 !.deferred = Begin(p), !.first = p],
              out |-> End(it.prev, it.first, FALSE)]
    ELSE [it  |-> [it EXCEPT !.first = point(x, y)],
          out |-> Begin(point(x, y))]

\* Some(LineTo { x, y })
arm_line_to(it, x, y) ==
    [it  |-> [it EXCEPT !.needs_end = TRUE, !.prev = point(x, y)],
     out |-> Line(it.prev, point(x, y))]

\* Some(CurveTo { x1, y1, x2, y2, x, y })
arm_curve_to(it, x1, y1, x2, y2, x, y) ==
    [it  |-> [it EXCEPT !.needs_end = TRUE, !.prev = point(x, y)],
     out |-> Cubic(it.prev, point(x1, y1), point(x2, y2), point(x, y))]

\* Some(ClosePath): prev is overwritten by first before the event is built.
arm_close_path(it) ==
    LET it1 == [it EXCEPT !.needs_end = FALSE, !.prev = it.first]
    IN  [it |-> it1, out |-> End(it1.prev, it1.first, TRUE)]

\* arm_none with the synthesized End left out.
arm_none_no_end(it) ==
    [it |-> [it EXCEPT !.needs_end = FALSE], out |-> None]

\* arm_none that leaves needs_end set after the synthesized End.
arm_none_keeps_needs_end(it) ==
    IF it.needs_end
    THEN [it |-> it, out |-> End(it.prev, it.first, FALSE)]
    ELSE [it |-> it, out |-> None]

\* None: the path data is exhausted.
arm_none(it) ==
    IF it.needs_end
    THEN [it  |-> [it EXCEPT !.needs_end = FALSE],
          out |-> End(it.prev, it.first, FALSE)]
    ELSE [it |-> it, out |-> None]

\* fn next(&mut self) -> Option<PathEvent> on path data `data`.
next(it, data) ==
    IF it.deferred # None THEN arm_deferred(it)
    ELSE IF it.idx < Len(data)
    THEN LET seg == data[it.idx + 1]
             it1 == [it EXCEPT !.idx = it.idx + 1]
         IN  CASE seg.kind = "MoveTo"    -> arm_move_to(it1, seg.x, seg.y)
               [] seg.kind = "LineTo"    -> arm_line_to(it1, seg.x, seg.y)
               [] seg.kind = "CurveTo"   ->
                      arm_curve_to(it1, seg.x1, seg.y1, seg.x2, seg.y2,
                                   seg.x, seg.y)
               [] seg.kind = "ClosePath" -> arm_close_path(it1)
    ELSE arm_none(it)

\* Iterator::collect(): pull until next() returns None.
RECURSIVE collect_from(_, _, _)
collect_from(it, data, acc) ==
    LET r == next(it, data)
    IN  IF r.out = None THEN acc
        ELSE collect_from(r.it, data, Append(acc, r.out))

collect(data) == collect_from(convert_path, data, <<>>)

(***************************************************************************)
(* The converter as a state machine: the iterator's fields are variables,  *)
(* every pull of next() is a step, one action per arm.  The event returned *)
(* is appended to `events`; a None return sets `ended`.                    *)
(***************************************************************************)
Self ==
    [idx |-> idx, first |-> first, prev |-> prev, deferred |-> deferred,
     needs_end |-> needs_end]

ConvInit ==
    /\ cmds \in PathDatas
    /\ idx = convert_path.idx
    /\ first = convert_path.first
    /\ prev = convert_path.prev
    /\ deferred = convert_path.deferred
    /\ needs_end = convert_path.needs_end
    /\ events = <<>>
    /\ ended = FALSE

Exhausted == idx = Len(cmds)
NextSeg   == cmds[idx + 1]

\* The pull's effect on the variables.
Pull ==
    LET r == next(Self, cmds)
    IN  /\ idx' = r.it.idx
        /\ first' = r.it.first
        /\ prev' = r.it.prev
        /\ deferred' = r.it.deferred
        /\ needs_end' = r.it.needs_end
        /\ events' = IF r.out = None THEN events ELSE Append(events, r.out)
        /\ ended' = (ended \/ r.out = None)
        /\ UNCHANGED <<cmds, concatVars, walkVars, builderVars, loaderVars>>

NextDeferred  == deferred # None /\ Pull
NextMoveTo    == deferred = None /\ ~Exhausted /\ NextSeg.kind = "MoveTo" /\ Pull
NextLineTo    == deferred = None /\ ~Exhausted /\ NextSeg.kind = "LineTo" /\ Pull
NextCurveTo   == deferred = None /\ ~Exhausted /\ NextSeg.kind = "CurveTo" /\ Pull
NextClosePath == deferred = None /\ ~Exhausted /\ NextSeg.kind = "ClosePath" /\ Pull
NextNone      == deferred = None /\ Exhausted /\ Pull

PathConvNext ==
    \/ NextDeferred
    \/ NextMoveTo
    \/ NextLineTo
    \/ NextCurveTo
    \/ NextClosePath
    \/ NextNone

(***************************************************************************)
(* usvg::Transform: six coefficients of [[a, c, e], [b, d, f], [0, 0, 1]]. *)
(***************************************************************************)
Transform(a, b, c, d, e, f) ==
    [a |-> a, b |-> b, c |-> c, d |-> d, e |-> e, f |-> f]

\* usvg::Transform::default()
Identity == Transform(1, 0, 0, 1, 0, 0)

\* TransformExt::is_identity: equality with the default transform.
is_identity(t) == t = Identity

\* usvg::Transform::has_skew, as used by concat.  On the model's transforms
\* (positive scales) usvg's answer is "b or c is not zero".
has_skew(t) == t.b # 0 \/ t.c # 0

\* usvg::Transform::append: self = self * other, the affine product.
append(t, o) ==
    Transform(t.a * o.a + t.c * o.b,
              t.b * o.a + t.d * o.b,
              t.a * o.c + t.c * o.d,
              t.b * o.c + t.d * o.d,
              t.a * o.e + t.c * o.f + t.e,
              t.b * o.e + t.d * o.f + t.f)

\* The skew-free arm of concat.  The assignments run in order, so a.e and
\* a.f are computed from the a.a and a.d assigned two lines above them.
concat_scale_translate(a, b) ==
    LET a1 == [a  EXCEPT !.a = a.a * b.a]
        a2 == [a1 EXCEPT !.b = 0]
        a3 == [a2 EXCEPT !.c = 0]
        a4 == [a3 EXCEPT !.d = a3.d * b.d]
        a5 == [a4 EXCEPT !.e = a4.a * b.e + a4.e]
        a6 == [a5 EXCEPT !.f = a5.d * b.f + a5.f]
    IN  a6

\* concat with its first arm (a.is_identity()) missing.
concat_no_identity_arm(a, b) ==
    IF is_identity(b) THEN a
    ELSE IF ~has_skew(a) /\ ~has_skew(b) THEN concat_scale_translate(a, b)
    ELSE append(a, b)

\* fn concat(a: &mut usvg::Transform, b: usvg::Transform): the value of `a`
\* when the call returns.
concat(a, b) ==
    IF is_identity(a) THEN Transform(b.a, b.b, b.c, b.d, b.e, b.f)
    ELSE IF is_identity(b) THEN a
    ELSE IF ~has_skew(a) /\ ~has_skew(b) THEN concat_scale_translate(a, b)
    ELSE append(a, b)

MaxScale == 2     \* scales a, d range over 1..MaxScale
MaxShift == 1     \* translations e, f range over 0..MaxShift

Transforms ==
    {Transform(a, b, c, d, e, f) :
        a \in 1..MaxScale, b \in 0..1, c \in 0..1,
        d \in 1..MaxScale, e \in 0..MaxShift, f \in 0..MaxShift}

ConcatInit ==
    /\ ta \in Transforms
    /\ tb \in Transforms
    /\ tr = ta
    /\ called = FALSE

\* One call concat(&mut a, b).
Concat ==
    /\ ~called
    /\ tr' = concat(ta, tb)
    /\ called' = TRUE
    /\ UNCHANGED <<ta, tb, convVars, walkVars, builderVars, loaderVars>>

(***************************************************************************)
(* The usvg tree.  `tree` lists the nodes in document order (the order of  *)
(* rctree's descendants(), which starts with the node itself); a node is   *)
(* [depth, kind, ts, fill, stroke, data] and its parent is the nearest     *)
(* earlier node one level up.  The root is the Svg node, at depth 0.       *)
(***************************************************************************)
MaxNodes == 4     \* nodes of the tree, the root included

\* The local transforms a group or a path may carry, and the view-box
\* transform build starts from (usvg::utils::view_box_to_transform).
LocalTs   == {Identity, Transform(2, 0, 0, 2, 1, 0)}
ViewBoxTs == {Identity}

\* usvg::Fill / usvg::Stroke values a path may carry (None: not set).
\* Paint::Color(c) with its opacity already as to_u8() gives it.
NoPaint    == [set |-> FALSE]
RedFill    == [set |-> TRUE, paint |-> "Color", rgb |-> <<255, 0, 0>>,
               alpha |-> 255]
BlueStroke == [set |-> TRUE, paint |-> "Color", rgb |-> <<0, 0, 255>>,
               alpha |-> 128, width |-> 2, linecap |-> "Butt",
               linejoin |-> "Miter"]

\* The path data of the tree's paths.
TreePathData == <<MoveTo(<<0, 0>>), LineTo(<<1, 0>>), LineTo(<<1, 1>>)>>

SvgNode == [depth |-> 0, kind |-> "Svg", ts |-> Identity, fill |-> NoPaint,
            stroke |-> NoPaint, data |-> <<>>]
\* Group.filter, Group.clip_path and Group.mask: None or Some(id).
NoRef   == [type |-> "None"]
Ref(id) == [type |-> "Some", id |-> id]

GroupNodes(d) ==
    {[depth |-> d, kind |-> "Group", ts |-> t, fill |-> NoPaint,
      stroke |-> NoPaint, data |-> <<>>, filter |-> NoRef,
      clip_path |-> NoRef, mask |-> NoRef] : t \in LocalTs}
PathNodes(d) ==
    {[depth |-> d, kind |-> "Path", ts |-> t, fill |-> fl, stroke |-> sk,
      data |-> TreePathData] :
        t \in LocalTs, fl \in {NoPaint, RedFill}, sk \in {NoPaint, BlueStroke}}
DefsNode(d) == [depth |-> d, kind |-> "Defs", ts |-> Identity,
                fill |-> NoPaint, stroke |-> NoPaint, data |-> <<>>]
ClipPathNode(d) == [depth |-> d, kind |-> "ClipPath", ts |-> Identity,
                    fill |-> NoPaint, stroke |-> NoPaint, data |-> <<>>]

\* The parent of node i > 1 of t.
ParentIn(t, i) ==
    CHOOSE j \in 1..(i - 1) :
        /\ t[j].depth = t[i].depth - 1
        /\ \A k \in (j + 1)..(i - 1) : t[k].depth >= t[i].depth

\* Whether node nd may follow t in document order: a root holds groups,
\* paths and defs; a group holds groups and paths; defs hold clip paths; a
\* clip path holds paths; a path holds nothing.
Extends(t, nd) ==
    /\ nd.depth <= Last(t).depth + 1
    /\ LET t1 == Append(t, nd)
           pk == t[ParentIn(t1, Len(t1))].kind
       IN  CASE pk = "Svg"      -> nd.kind \in {"Group", "Path", "Defs"}
             [] pk = "Group"    -> nd.kind \in {"Group", "Path"}
             [] pk = "Defs"     -> nd.kind = "ClipPath"
             [] pk = "ClipPath" -> nd.kind = "Path"
             [] OTHER           -> FALSE

InnerNodes ==
    UNION {GroupNodes(d) \cup PathNodes(d) \cup {DefsNode(d), ClipPathNode(d)} :
            d \in 1..(MaxNodes - 1)}

\* The trees of n nodes: each tree of n - 1 nodes with one node more.
TreesOfSize[n \in 1..MaxNodes] ==
    IF n = 1 THEN {<<SvgNode>>}
    ELSE {Append(p[1], p[2]) :
            p \in {q \in TreesOfSize[n - 1] \X InnerNodes : Extends(q[1], q[2])}}

Parent(i) == ParentIn(tree, i)

\* The references a group may carry, in every combination.
RefCombos ==
    [filter    : {NoRef, Ref("filter1")},
     clip_path : {NoRef, Ref("clipPath1")},
     mask      : {NoRef, Ref("mask1")}]

GroupsOf(doc) == {i \in 1..Len(doc) : doc[i].kind = "Group"}

\* doc with the references r[g] on each of its groups g.
Attach(doc, r) ==
    [i \in 1..Len(doc) |->
        IF doc[i].kind = "Group"
        THEN [doc[i] EXCEPT !.filter = r[i].filter,
                            !.clip_path = r[i].clip_path,
                            !.mask = r[i].mask]
        ELSE doc[i]]

\* doc with no reference on any group.
Strip(doc) ==
    Attach(doc, [g \in GroupsOf(doc) |->
                    [filter |-> NoRef, clip_path |-> NoRef, mask |-> NoRef]])

\* node.children(), in document order.
RECURSIVE children_from(_, _, _)
children_from(doc, g, i) ==
    IF i > Len(doc) \/ doc[i].depth <= doc[g].depth THEN <<>>
    ELSE IF doc[i].depth = doc[g].depth + 1
         THEN <<i>> \o children_from(doc, g, i + 1)
         ELSE children_from(doc, g, i + 1)

children(doc, g) == children_from(doc, g, g + 1)

\* usvg's NodeExt::transform: the transform of the node's kind, the default
\* transform for a kind that has none.
node_transform(doc, n) ==
    IF doc[n].kind \in {"Path", "Group", "ClipPath"} THEN doc[n].ts
    ELSE Identity

\* usvg's NodeExt::abs_transform: the transforms of node.ancestors(), which
\* start with the node itself, appended from the root down.
RECURSIVE abs_transform(_, _)
abs_transform(doc, n) ==
    IF n = 1 THEN append(Identity, node_transform(doc, 1))
    ELSE append(abs_transform(doc, ParentIn(doc, n)), node_transform(doc, n))

\* TransformExt::to_bevy: the Mat4 columns handed to Transform::from_matrix.
to_bevy(t) ==
    <<<<t.a, t.b, 0, 0>>, <<t.c, t.d, 0, 0>>, <<t.e, t.f, 1, 0>>,
      <<0, 0, 0, 1>>>>

\* ColorExt::to_bevy_with_alpha_u8 on fill.paint.
to_bevy_with_alpha_u8(paint, rgb, alpha) ==
    IF paint = "Color" THEN <<rgb[1], rgb[2], rgb[3], alpha>>
    ELSE <<255, 255, 255, 255>>

\* fn convert_stroke(s) -> (Color, StrokeOptions)
convert_stroke(s) ==
    [color |-> IF s.paint = "Color"
               THEN <<s.rgb[1], s.rgb[2], s.rgb[3], s.alpha>>
               ELSE <<255, 255, 255, 255>>,
     opts  |-> [tolerance_e2 |-> 1, line_width |-> s.width,
                line_cap |-> s.linecap, line_join |-> s.linejoin]]

(***************************************************************************)
(* The walk.  The state threaded through it is st = [transform,            *)
(* descriptors, calls]: the `transform` and `descriptors` both functions   *)
(* borrow mutably, and the history of render_node calls, each recorded as  *)
(* [caller, node, entry, handed]: the caller (a group node, 0 for build),  *)
(* the node rendered, the running transform when the caller was entered    *)
(* and the running transform handed to the call.                           *)
(***************************************************************************)

\* The PathDescriptor values render_node pushes for path node n; `node` is
\* not a field of the struct: it records which node the descriptor is of.
FillDescriptor(doc, n, t) ==
    [segments      |-> collect(doc[n].data),
     abs_transform |-> t,
     color         |-> to_bevy_with_alpha_u8(doc[n].fill.paint,
                                             doc[n].fill.rgb,
                                             doc[n].fill.alpha),
     draw_type     |-> [type |-> "Fill"],
     node          |-> n]

\* StrokeDescriptor with a transform and a conversion of its own: the node's
\* abs_transform alone, and the path data converted without its last segment.
StrokeDescriptor_own_geometry(doc, n, t) ==
    [segments      |-> collect(SubSeq(doc[n].data, 1, Len(doc[n].data) - 1)),
     abs_transform |-> to_bevy(abs_transform(doc, n)),
     color         |-> convert_stroke(doc[n].stroke).color,
     draw_type     |-> [type |-> "Stroke",
                        opts |-> convert_stroke(doc[n].stroke).opts],
     node          |-> n]

StrokeDescriptor(doc, n, t) ==
    [segments      |-> collect(doc[n].data),
     abs_transform |-> t,
     color         |-> convert_stroke(doc[n].stroke).color,
     draw_type     |-> [type |-> "Stroke",
                        opts |-> convert_stroke(doc[n].stroke).opts],
     node          |-> n]

\* render_path with the stroke descriptor pushed before the fill descriptor.
render_path_stroke_first(doc, n, st) ==
    LET t   == to_bevy(append(abs_transform(doc, n), node_transform(doc, n)))
        d1  == IF doc[n].stroke.set
               THEN Append(st.descriptors, StrokeDescriptor(doc, n, t))
               ELSE st.descriptors
        d2  == IF doc[n].fill.set
               THEN Append(d1, FillDescriptor(doc, n, t))
               ELSE d1
    IN  [st EXCEPT !.descriptors = d2]

\* render_path whose descriptors carry the running transform.
render_path_running_transform(doc, n, st) ==
    LET t   == to_bevy(st.transform)
        d1  == IF doc[n].fill.set
               THEN Append(st.descriptors, FillDescriptor(doc, n, t))
               ELSE st.descriptors
        d2  == IF doc[n].stroke.set
               THEN Append(d1, StrokeDescriptor(doc, n, t))
               ELSE d1
    IN  [st EXCEPT !.descriptors = d2]

\* The NodeKind::Path arm of render_node.
render_path(doc, n, st) ==
    LET t   == to_bevy(append(abs_transform(doc, n), node_transform(doc, n)))
        d1  == IF doc[n].fill.set
               THEN Append(st.descriptors, FillDescriptor(doc, n, t))
               ELSE st.descriptors
        d2  == IF doc[n].stroke.set
               THEN Append(d1, StrokeDescriptor(doc, n, t))
               ELSE d1
    IN  [st EXCEPT !.descriptors = d2]

RECURSIVE render_node(_, _, _)

\* The body of render_group's loop, over the children kids of group g that
\* are still to come; entry is the running transform render_group started
\* with.
RECURSIVE render_children(_, _, _, _, _)
render_children(doc, g, kids, entry, st) ==
    IF kids = <<>> THEN st
    ELSE LET c   == Head(kids)
             t1  == concat(st.transform, node_transform(doc, c))
             st1 == [st EXCEPT !.transform = t1,
                               !.calls = Append(@, [caller |-> g, node |-> c,
                                                    entry |-> entry,
                                                    handed |-> t1])]
         IN  render_children(doc, g, Tail(kids), entry, render_node(doc, c, st1))

\* pub(crate) fn render_group(parent, transform, descriptors)
render_group(doc, g, st) == render_children(doc, g, children(doc, g), st.transform, st)

\* render_group_impl that gives up a group that has a clip path.
render_group_impl_skips_clipped(doc, g, st) ==
    IF doc[g].clip_path # NoRef THEN st ELSE render_group(doc, g, st)

\* fn render_group_impl(node, g, transform, descriptors): render_group, then
\* for each of g.filter, g.clip_path and g.mask that is Some(id) a println!
\* of the id and nothing else.
render_group_impl(doc, g, st) ==
    LET st1 == render_group(doc, g, st)
        st2 == IF doc[g].filter # NoRef THEN st1 ELSE st1
        st3 == IF doc[g].clip_path # NoRef THEN st2 ELSE st2
    IN  IF doc[g].mask # NoRef THEN st3 ELSE st3

\* fn render_node(node, transform, descriptors)
render_node(doc, n, st) ==
    CASE doc[n].kind = "Path"  -> render_path(doc, n, st)
      [] doc[n].kind = "Svg"   -> render_group(doc, n, st)
      [] doc[n].kind = "Group" -> render_group_impl(doc, n, st)
      [] doc[n].kind = "Defs"  -> st
      [] OTHER                  -> st

(***************************************************************************)
(* SvgBuilder::build from the parsed tree on: the loop over                *)
(* svg_tree.root().descendants(), then the Svg value.                      *)
(***************************************************************************)
\* The body of the loop for node n: render_node(&node, &mut transform,
\* &mut descriptors), with the call recorded.
render_descendant(doc, view, n, st) ==
    render_node(doc, n,
        [st EXCEPT !.calls = Append(@, [caller |-> 0, node |-> n,
                                        entry |-> view,
                                        handed |-> st.transform])])

\* The first k iterations of the loop on tree doc, from the view-box
\* transform view.
RECURSIVE descendants_loop(_, _, _)
descendants_loop(doc, view, k) ==
    IF k = 0
    THEN [transform |-> view, descriptors |-> <<>>, calls |-> <<>>]
    ELSE CHOOSE after \in {render_descendant(doc, view, k, st) :
                             st \in {descendants_loop(doc, view, k - 1)}} : TRUE

MaxRefNodes == 3  \* nodes of a tree whose groups carry references

WalkInit ==
    /\ \E n \in 1..MaxNodes : tree \in TreesOfSize[n]
    /\ cursor = 0
    /\ view_ts \in ViewBoxTs
    /\ transform = view_ts
    /\ descriptors = <<>>
    /\ calls = <<>>
    /\ built = FALSE

\* build on a tree whose groups carry filter, clip-path and mask references.
DegradeInit ==
    /\ \E n \in 1..MaxRefNodes :
       \E doc \in TreesOfSize[n] :
       \E r \in [GroupsOf(doc) -> RefCombos] : tree = Attach(doc, r)
    /\ cursor = 0
    /\ view_ts \in ViewBoxTs
    /\ transform = view_ts
    /\ descriptors = <<>>
    /\ calls = <<>>
    /\ built = FALSE

MaxViewNodes == 3 \* nodes of a tree walked from several view-box transforms

\* Other values view_box_to_transform may return, and so other values the
\* running transform may have.
OtherRunning == {Transform(2, 0, 0, 2, 1, 0), Transform(1, 0, 0, 2, 0, 1)}

\* build on a tree whose view box gives any of these transforms.
RunningInit ==
    /\ \E n \in 1..MaxViewNodes : tree \in TreesOfSize[n]
    /\ cursor = 0
    /\ view_ts \in ViewBoxTs \cup OtherRunning
    /\ transform = view_ts
    /\ descriptors = <<>>
    /\ calls = <<>>
    /\ built = FALSE

\* One iteration of `for node in svg_tree.root().descendants()`.
RenderDescendant ==
    /\ ~built
    /\ cursor < Len(tree)
    /\ LET n  == cursor + 1
           st == render_descendant(tree, view_ts, n,
                   [transform   |-> transform,
                    descriptors |-> descriptors,
                    calls       |-> calls])
       IN  /\ transform' = st.transform
           /\ descriptors' = st.descriptors
           /\ calls' = st.calls
    /\ cursor' = cursor + 1
    /\ UNCHANGED <<tree, view_ts, built, convVars, concatVars,
                    builderVars, loaderVars>>

\* let svg = Svg { ..., paths: descriptors }
BuildSvg ==
    /\ ~built
    /\ cursor = Len(tree)
    /\ built' = TRUE
    /\ UNCHANGED <<tree, view_ts, cursor, transform, descriptors, calls,
                    convVars, concatVars, builderVars, loaderVars>>

(***************************************************************************)
(* SvgBuilder: from_file, origin, position, scale and the parts of build   *)
(* around the walk (reading, parsing, placement, the Svg's file name).     *)
(* Lengths are whole numbers; the document sizes are even, so that the     *)
(* halving in build is exact.                                              *)
(***************************************************************************)
Vec2(x, y)    == <<x, y>>
Vec3(x, y, z) == <<x, y, z>>

\* impl Default for Origin
Origin_default == "TopLeft"
Origins        == {"TopLeft", "Center"}

\* A path is the sequence of its components.
NoFileName  == [type |-> "None"]
SomeName(n) == [type |-> "Some", name |-> n]
Files ==
    {<<"a.svg">>, <<"assets", "b.svg">>, <<"assets", "..">>, <<"..">>}

\* Path::file_name: the last component, unless the path is empty or ends
\* with `..`.
file_name(p) ==
    IF p = <<>> \/ Last(p) = ".." THEN NoFileName ELSE SomeName(Last(p))

Translations == {Vec3(0, 0, 0), Vec3(10, 10, 0), Vec3(-3, 7, 1)}
Scales       == {Vec2(1, 1), Vec2(2, 2), Vec2(2, 1)}
\* svg_tree.svg_node().size of the documents that parse.
Sizes        == {[width |-> 100, height |-> 50], [width |-> 2, height |-> 4]}

\* What the environment hands to build: std::fs::read fails or yields the
\* bytes, and usvg::Tree::from_data fails or yields a tree of some size.
ReadResults  == {[ok |-> FALSE, error |-> "io::Error"], [ok |-> TRUE]}
ParseResults ==
    {[ok |-> FALSE, error |-> "usvg::Error"]}
        \cup {[ok |-> TRUE, size |-> sz] : sz \in Sizes}
NotRun == [ok |-> FALSE, error |-> "not run"]

\* SvgBuilder::from_file
from_file(p) ==
    [file        |-> p,
     origin      |-> Origin_default,
     translation |-> Vec3(0, 0, 0),
     scale       |-> Vec2(1, 1)]

\* placement with the vertical offset pointing down.
placement_y_down(self, size) ==
    IF self.origin = "Center"
    THEN Vec3(self.translation[1] + ((-size.width) * self.scale[1]) \div 2,
              self.translation[2] + ((-size.height) * self.scale[2]) \div 2,
              self.translation[3] + 0)
    ELSE self.translation

\* let translation = match self.origin { ... }
placement(self, size) ==
    IF self.origin = "Center"
    THEN Vec3(self.translation[1] + ((-size.width) * self.scale[1]) \div 2,
              self.translation[2] + (size.height * self.scale[2]) \div 2,
              self.translation[3] + 0)
    ELSE self.translation

\* SvgBuilder::build for a given answer of the file system and the parser.
\* `?` returns the error; file_name().unwrap() panics on None.
build(self, rd, parsed) ==
    IF ~rd.ok THEN [kind |-> "Err", error |-> rd.error]
    ELSE IF ~parsed.ok THEN [kind |-> "Err", error |-> parsed.error]
    ELSE IF file_name(self.file) = NoFileName
    THEN [kind |-> "Panic", at |-> "Option::unwrap"]
    ELSE [kind        |-> "Ok",
          svg         |-> [file   |-> file_name(self.file).name,
                           width  |-> parsed.size.width,
                           height |-> parsed.size.height,
                           origin |-> self.origin],
          at_position |-> placement(self, parsed.size),
          with_scale  |-> self.scale]

SelfBuilder ==
    [file |-> file, origin |-> origin, translation |-> translation,
     scale |-> scale]

NotBuilt == [kind |-> "Builder"]

BuilderInit ==
    /\ file \in Files
    /\ origin = from_file(file).origin
    /\ translation = from_file(file).translation
    /\ scale = from_file(file).scale
    /\ setters = {}
    /\ io = [read |-> NotRun, parsed |-> NotRun]
    /\ outcome = NotBuilt

restOfBuilder == <<convVars, concatVars, walkVars, loaderVars>>

\* pub fn origin(mut self, origin: Origin)
SetOrigin ==
    /\ outcome = NotBuilt
    /\ \E o \in Origins : origin' = o
    /\ setters' = setters \cup {"origin"}
    /\ UNCHANGED <<file, translation, scale, io, outcome, restOfBuilder>>

\* pub fn position(mut self, translation: Vec3)
SetPosition ==
    /\ outcome = NotBuilt
    /\ \E t \in Translations : translation' = t
    /\ setters' = setters \cup {"position"}
    /\ UNCHANGED <<file, origin, scale, io, outcome, restOfBuilder>>

\* pub fn scale(mut self, scale: Vec2)
SetScale ==
    /\ outcome = NotBuilt
    /\ \E sc \in Scales : scale' = sc
    /\ setters' = setters \cup {"scale"}
    /\ UNCHANGED <<file, origin, translation, io, outcome, restOfBuilder>>

\* pub fn build(self): consumes the builder.
Build ==
    /\ outcome = NotBuilt
    /\ \E rd \in ReadResults :
       \E parsed \in (IF rd.ok THEN ParseResults ELSE {NotRun}) :
           /\ io' = [read |-> rd, parsed |-> parsed]
           /\ outcome' = build(SelfBuilder, rd, parsed)
    /\ UNCHANGED <<file, origin, translation, scale, setters, restOfBuilder>>

BuilderNext ==
    \/ SetOrigin
    \/ SetPosition
    \/ SetScale
    \/ Build

(***************************************************************************)
(* SvgAssetLoader::load.  The future holds no await: a poll runs it to its *)
(* end.                                                                    *)
(***************************************************************************)
LoadPaths ==
    {<<"a.svg">>, <<"assets", "b.svg">>, <<"assets", "c.svgz">>,
     <<"icons", "d.svg">>, <<"icons", "sub", "e.svg">>,
     <<"assets", "..">>, <<"..">>, <<>>}

\* The variants of usvg::Error.
UsvgErrors ==
    {"NotAnUtf8Str", "MalformedGZip", "ElementsLimitReached", "InvalidSize",
     "ParsingFailed"}

\* What usvg::Tree::from_data makes of the bytes handed to load.
LoadParseResults ==
    {[ok |-> FALSE, error |-> e] : e \in UsvgErrors}
        \cup {[ok |-> TRUE, size |-> sz] : sz \in Sizes}

\* enum SvgError
InvalidFileName(text) == [variant |-> "InvalidFileName", text |-> text]
SvgError(err)         == [variant |-> "SvgError", from |-> err]

\* struct FileSvgError; `path` is the path as load_context.path().display()
\* prints it.
FileSvgError(error, p) == [error |-> error, path |-> p]

NoAsset     == [type |-> "None"]
NotReturned == [type |-> "pending"]
Ok          == [type |-> "Ok"]
Err(e)      == [type |-> "Err", error |-> e]

\* load that names the asset "" when the path has no file name.
load_default_name(p, parsed, slot) ==
    IF ~parsed.ok
    THEN [result |-> Err(FileSvgError(SvgError(parsed.error), p)),
          asset  |-> slot]
    ELSE [result |-> Ok,
          asset  |-> [from_tree |-> parsed.size,
                      name      |-> IF file_name(p) = NoFileName
                                    THEN "" ELSE file_name(p).name]]

\* The body of load for load_context.path() = p, bytes that parse to
\* `parsed`, and `slot` the default asset of load_context before the call.
load(p, parsed, slot) ==
    IF ~parsed.ok
    THEN [result |-> Err(FileSvgError(SvgError(parsed.error), p)),
          asset  |-> slot]
    ELSE IF file_name(p) = NoFileName
    THEN [result |-> Err(FileSvgError(InvalidFileName(p), p)),
          asset  |-> slot]
    ELSE [result |-> Ok,
          asset  |-> [from_tree |-> parsed.size,
                      name      |-> file_name(p).name]]

LoaderInit ==
    /\ path \in LoadPaths
    /\ bytes \in LoadParseResults
    /\ asset = NoAsset
    /\ result = NotReturned

Load ==
    /\ result = NotReturned
    /\ asset' = load(path, bytes, asset).asset
    /\ result' = load(path, bytes, asset).result
    /\ UNCHANGED <<path, bytes, convVars, concatVars, walkVars, builderVars>>

(***************************************************************************)
(* The specifications.  Each runs one part of the program; the variables   *)
(* of the other parts stay at rest (every action leaves them unchanged).   *)
(***************************************************************************)
ConvIdle ==
    /\ cmds = <<>> /\ idx = 0 /\ prev = <<0, 0>> /\ first = <<0, 0>>
    /\ needs_end = FALSE /\ deferred = None /\ events = <<>> /\ ended = FALSE
ConcatIdle ==
    /\ ta = Identity /\ tb = Identity /\ tr = Identity /\ called = FALSE
WalkIdle ==
    /\ tree = <<SvgNode>> /\ view_ts = Identity /\ cursor = 0
    /\ transform = Identity
    /\ descriptors = <<>> /\ calls = <<>> /\ built = FALSE

BuilderIdle ==
    /\ file = <<"a.svg">> /\ origin = Origin_default
    /\ translation = Vec3(0, 0, 0) /\ scale = Vec2(1, 1) /\ setters = {}
    /\ io = [read |-> NotRun, parsed |-> NotRun] /\ outcome = NotBuilt
LoaderIdle ==
    /\ path = <<"a.svg">> /\ bytes = [ok |-> FALSE, error |-> "ParsingFailed"]
    /\ asset = NoAsset /\ result = NotReturned
OthersIdle == BuilderIdle /\ LoaderIdle

ConvSpecInit == ConvInit /\ ConcatIdle /\ WalkIdle /\ OthersIdle
ConvSpec     == ConvSpecInit /\ [][PathConvNext]_vars

ConcatSpecInit == ConcatInit /\ ConvIdle /\ WalkIdle /\ OthersIdle
ConcatSpecNext == Concat
ConcatSpec     == ConcatSpecInit /\ [][ConcatSpecNext]_vars

WalkNext ==
    \/ RenderDescendant
    \/ BuildSvg

WalkSpecInit == WalkInit /\ ConvIdle /\ ConcatIdle /\ OthersIdle
WalkSpec     == WalkSpecInit /\ [][WalkNext]_vars

DegradeSpecInit == DegradeInit /\ ConvIdle /\ ConcatIdle /\ OthersIdle
DegradeSpec     == DegradeSpecInit /\ [][WalkNext]_vars

RunningSpecInit == RunningInit /\ ConvIdle /\ ConcatIdle /\ OthersIdle
RunningSpec     == RunningSpecInit /\ [][WalkNext]_vars

BuilderSpecInit ==
    BuilderInit /\ ConvIdle /\ ConcatIdle /\ WalkIdle /\ LoaderIdle
BuilderSpec == BuilderSpecInit /\ [][BuilderNext]_vars

LoaderSpecInit ==
    LoaderInit /\ ConvIdle /\ ConcatIdle /\ WalkIdle /\ BuilderIdle
LoaderSpecNext == Load
LoaderSpec     == LoaderSpecInit /\ [][LoaderSpecNext]_vars

(***************************************************************************)
(* Properties of the path converter (ConvSpec).                            *)
(***************************************************************************)
IsSegment(e) == e.type \in {"Line", "Cubic"}

\* The end point of a MoveTo, LineTo or CurveTo segment.
SegPoint(seg) == <<seg.x, seg.y>>

\* The last MoveTo of the path data.
LastMoveTo ==
    CHOOSE m \in 1..Len(cmds) :
        /\ cmds[m].kind = "MoveTo"
        /\ \A k \in (m + 1)..Len(cmds) : cmds[k].kind # "MoveTo"

CountOf(type) == Cardinality({i \in 1..Len(events) : events[i].type = type})

\* C1 (event balance): the complete event stream of a path data that starts
\* with MoveTo holds as many Begin as End events, and an End lies between
\* any two Begin events.
C1_EventBalance ==
    ended =>
        /\ CountOf("Begin") = CountOf("End")
        /\ \A i, j \in 1..Len(events) :
              (i < j /\ events[i].type = "Begin" /\ events[j].type = "Begin")
                  => \E k \in (i + 1)..(j - 1) : events[k].type = "End"

\* C2 (segment continuity): every Line or Cubic event starts where the
\* event right before it left the pen: at the `at` of a Begin, at the `to`
\* of a Line or Cubic.
C2_SegmentContinuity ==
    \A i \in 2..Len(events) :
        IsSegment(events[i]) =>
            /\ events[i - 1].type = "Begin"
                  => events[i].from = events[i - 1].at
            /\ IsSegment(events[i - 1])
                  => events[i].from = events[i - 1].to

\* C3 (explicit close): the pull that consumes a ClosePath returns
\* End(last, first, closed = true) with `last` the value prev had before
\* the pull (the end point of the subpath's last Line or Cubic) and `first`
\* the start of the subpath.
C3_ExplicitClose ==
    [][(NextClosePath /\ needs_end) =>
            Last(events') = End(prev, first, TRUE)]_vars

\* C4 (unclosed-subpath synthesis): when the path data ends with a LineTo or
\* CurveTo, the complete event stream ends with one synthesized
\* End(last = the end point of the last segment, first = the point of the
\* last MoveTo, closed = false), right after that segment's event, and later
\* pulls add nothing.
C4_UnclosedSynthesis ==
    (ended /\ Last(cmds).kind \in {"LineTo", "CurveTo"}) =>
        /\ Len(events) >= 2
        /\ Last(events) = End(SegPoint(Last(cmds)), SegPoint(cmds[LastMoveTo]),
                              FALSE)
        /\ IsSegment(events[Len(events) - 1])
        /\ events[Len(events) - 1].to = SegPoint(Last(cmds))

C4_Witness ==
    /\ ended
    /\ cmds = <<MoveTo(<<0, 0>>), LineTo(<<1, 0>>), LineTo(<<1, 1>>)>>
    /\ events = <<Begin(<<0, 0>>), Line(<<0, 0>>, <<1, 0>>),
                  Line(<<1, 0>>, <<1, 1>>), End(<<1, 1>>, <<0, 0>>, FALSE)>>

\* The spec's multi-subpath example and its event stream.
TwoSubpaths ==
    <<MoveTo(<<0, 0>>), LineTo(<<1, 0>>), MoveTo(<<5, 5>>), LineTo(<<6, 5>>)>>
TwoSubpathsEvents ==
    <<Begin(<<0, 0>>), Line(<<0, 0>>, <<1, 0>>), End(<<1, 0>>, <<0, 0>>, FALSE),
      Begin(<<5, 5>>), Line(<<5, 5>>, <<6, 5>>), End(<<6, 5>>, <<5, 5>>, FALSE)>>

\* An End at j terminates the subpath begun at i: no Begin or End between.
Terminates(i, j) ==
    /\ i < j
    /\ events[i].type = "Begin"
    /\ events[j].type = "End"
    /\ \A k \in (i + 1)..(j - 1) : IsSegment(events[k])

\* C5 (multi-subpath hand-over): the pull that consumes MoveTo(p) while a
\* subpath with a segment is open returns End(old prev, old first, false)
\* and defers Begin(p); the next pull returns that Begin and consumes no
\* segment; the End that terminates the subpath so begun carries first = p;
\* and the spec's example yields exactly its two Begin/End pairs.
C5_HandOver ==
    /\ [][(NextMoveTo /\ needs_end) =>
            /\ Last(events') = End(prev, first, FALSE)
            /\ deferred' = Begin(SegPoint(NextSeg))]_vars
    /\ [][(PathConvNext /\ deferred # None) =>
            /\ Last(events') = deferred
            /\ Len(events') = Len(events) + 1
            /\ idx' = idx]_vars
    /\ [](\A i \in 2..Len(events) :
            (events[i].type = "Begin" /\ events[i - 1].type = "End"
             /\ ~events[i - 1].close) =>
                \A j \in 1..Len(events) :
                    Terminates(i, j) => events[j].first = events[i].at)
    /\ []((ended /\ cmds = TwoSubpaths) => events = TwoSubpathsEvents)

C5_Witness ==
    /\ ended
    /\ cmds = TwoSubpaths
    /\ Len(events) = 6
    /\ events[3].type = "End" /\ events[4] = Begin(<<5, 5>>)
    /\ Terminates(4, 6)

(***************************************************************************)
(* Properties of concat (ConcatSpec).                                      *)
(***************************************************************************)

\* C6 (skew-free fast path): for non-identity transforms P and C without
\* skew, concat(P, C) leaves P equal to the affine product: a' = a_p * a_c,
\* b' = c' = 0, d' = d_p * d_c, e' = a_p * e_c + e_p, f' = d_p * f_c + f_p.
C6_FastPathIsProduct ==
    (called /\ ~is_identity(ta) /\ ~is_identity(tb)
            /\ ~has_skew(ta) /\ ~has_skew(tb)) =>
        tr = Transform(ta.a * tb.a, 0, 0, ta.d * tb.d,
                       ta.a * tb.e + ta.e, ta.d * tb.f + ta.f)

\* C7 (identity law): concat(identity, T) leaves the accumulator equal to T
\* and concat(T, identity) leaves the accumulator T as it was, in all six
\* coefficients, for every T, skewed or not.
C7_IdentityLaw ==
    called =>
        /\ ta = Identity => tr = tb
        /\ tb = Identity => tr = ta

C7_Witness ==
    /\ called
    /\ ta = Identity
    /\ tb = Transform(2, 1, 0, 2, 1, 1)
    /\ tr = tb

(***************************************************************************)
(* Properties of the walk (WalkSpec).                                      *)
(***************************************************************************)

\* The composition, from the root down to node n, of the local transform of
\* every ancestor of n and then of n itself, each taken once.
RECURSIVE Composition(_)
Composition(n) ==
    IF n = 1 THEN node_transform(tree, 1)
    ELSE append(Composition(Parent(n)), node_transform(tree, n))

\* C8 (per-branch transform scoping): the running transform handed to
\* render_node for a child of a group is the composition of the running
\* transform the group was entered with and the child's local transform,
\* whatever its earlier siblings were; and every top-level call build makes
\* is handed the transform build started with.
C8_BranchScoping ==
    \A k \in 1..Len(calls) :
        IF calls[k].caller = 0
        THEN calls[k].handed = calls[k].entry
        ELSE calls[k].handed =
                append(calls[k].entry, node_transform(tree, calls[k].node))

\* C9 (absolute transform): the abs_transform of every descriptor is the
\* composition of the local transforms of the path's ancestors and of the
\* path itself, root first, each applied once.
C9_AbsTransform ==
    \A k \in 1..Len(descriptors) :
        descriptors[k].abs_transform = to_bevy(Composition(descriptors[k].node))

DescriptorsOf(n) ==
    Cardinality({k \in 1..Len(descriptors) : descriptors[k].node = n})

\* C10 (descriptor count): the Svg built holds, for every path node, one
\* descriptor if it has a fill plus one if it has a stroke.
C10_DescriptorCount ==
    built =>
        \A n \in 1..Len(tree) :
            tree[n].kind = "Path" =>
                DescriptorsOf(n) = (IF tree[n].fill.set THEN 1 ELSE 0)
                                   + (IF tree[n].stroke.set THEN 1 ELSE 0)

\* C11 (draw order): in the Svg built, every descriptor of a path node comes
\* before every descriptor of a path node that follows it in document
\* order (depth-first pre-order).
C11_DrawOrder ==
    built =>
        \A i, j \in 1..Len(descriptors) :
            descriptors[i].node < descriptors[j].node => i < j

IsFill(d)   == d.draw_type.type = "Fill"
IsStroke(d) == d.draw_type.type = "Stroke"

\* C12 (fill before stroke): at every moment of the walk, every Fill
\* descriptor of a path node that has a fill and a stroke is directly
\* followed by a Stroke descriptor of the same node.
C12_FillThenStroke ==
    \A k \in 1..Len(descriptors) :
        (IsFill(descriptors[k]) /\ tree[descriptors[k].node].stroke.set) =>
            /\ k < Len(descriptors)
            /\ IsStroke(descriptors[k + 1])
            /\ descriptors[k + 1].node = descriptors[k].node

C12_Witness ==
    /\ Len(descriptors) >= 2
    /\ IsFill(descriptors[1])
    /\ IsStroke(descriptors[2])
    /\ descriptors[2].node = descriptors[1].node
    /\ tree[descriptors[1].node].fill.set
    /\ tree[descriptors[1].node].stroke.set

\* Node n lies in the subtree of a Defs node.
RECURSIVE UnderDefs(_)
UnderDefs(n) ==
    /\ n > 1
    /\ \/ tree[Parent(n)].kind = "Defs"
       \/ UnderDefs(Parent(n))

\* C13 (defs are skipped): the Svg built holds no descriptor of a path node
\* that lies in the subtree of a Defs node.
C13_DefsSkipped ==
    built => \A k \in 1..Len(descriptors) : ~UnderDefs(descriptors[k].node)

\* A subpath is open and unterminated: a Begin is waiting in the deferred
\* slot, or a Begin was emitted and no End was emitted after it.
SubpathOpen ==
    \/ deferred # None
    \/ \E i \in 1..Len(events) :
           /\ events[i].type = "Begin"
           /\ \A j \in (i + 1)..Len(events) : events[j].type # "End"

\* C17 (meaning of needs_end): after every pull, needs_end is true exactly
\* when a subpath is open and unterminated.
C17_NeedsEndMeaning == needs_end <=> SubpathOpen

\* C19 (the stream is finite and stays exhausted): a stream for n segments
\* never holds more than 2n + 1 events, every pull that does not return None
\* adds one event, and once None was returned every later pull returns None
\* and leaves prev, first, needs_end and deferred (and the position in the
\* path data) unchanged.
C19_FiniteStream ==
    /\ [](Len(events) <= 2 * Len(cmds) + 1)
    /\ [][~ended' => Len(events') = Len(events) + 1]_vars
    /\ [][ended => /\ ended'
                   /\ next(Self, cmds).out = None
                   /\ UNCHANGED <<prev, first, needs_end, deferred,
                                  idx, events>>]_vars

\* None was returned for path data of more than one subpath, after a
\* hand-over (more events than segments).
C19_Witness ==
    /\ ended
    /\ Len(events) > Len(cmds)
    /\ next(Self, cmds).out = None

C14_GracefulDegradation ==
    /\ \A stripped \in {Strip(tree)} :
       \A plain \in {descendants_loop(stripped, view_ts, cursor)} :
           /\ descriptors = plain.descriptors
           /\ transform = plain.transform
    /\ cursor < Len(tree) =>
           \A after \in {render_descendant(tree, view_ts, cursor + 1,
                              [transform   |-> transform,
                               descriptors |-> descriptors,
                               calls       |-> calls])} :
               /\ Len(after.descriptors) >= Len(descriptors)
               /\ SubSeq(after.descriptors, 1, Len(descriptors)) = descriptors
    /\ built => cursor = Len(tree)

\* The Svg was built from a tree with a group that carries a filter, a clip
\* path and a mask and holds a path that was rendered.
C14_Witness ==
    /\ built
    /\ \E g \in GroupsOf(tree) :
           /\ tree[g].filter # NoRef
           /\ tree[g].clip_path # NoRef
           /\ tree[g].mask # NoRef
           /\ \E k \in 1..Len(descriptors) : Parent(descriptors[k].node) = g

(***************************************************************************)
(* Properties of the builder (BuilderSpec) and of the loader (LoaderSpec). *)
(***************************************************************************)
BuildRan      == outcome # NotBuilt
ReadAndParsed == io.read.ok /\ io.parsed.ok

\* C15 (origin anchoring): the position build hands to the bundle is the
\* builder's translation when the origin is TopLeft and translation +
\* (-width * scale.x / 2, +height * scale.y / 2, 0) when it is Center; a
\* builder field no method has set holds its default: TopLeft, (0, 0, 0),
\* (1, 1).
C15_OriginAnchoring ==
    /\ outcome.kind = "Ok" =>
          LET w == io.parsed.size.width
              h == io.parsed.size.height
          IN  /\ origin = "TopLeft" => outcome.at_position = translation
              /\ origin = "Center" =>
                    /\ 2 * (outcome.at_position[1] - translation[1])
                           = -(w * scale[1])
                    /\ 2 * (outcome.at_position[2] - translation[2])
                           = h * scale[2]
                    /\ outcome.at_position[3] = translation[3]
    /\ "origin" \notin setters => origin = "TopLeft"
    /\ "position" \notin setters => translation = <<0, 0, 0>>
    /\ "scale" \notin setters => scale = <<1, 1>>

\* The example: width 100, height 50, scale (2, 2), Center, translation
\* (10, 10, 0) is placed at (-90, 60, 0).
C15_Witness ==
    /\ outcome.kind = "Ok"
    /\ io.parsed.size = [width |-> 100, height |-> 50]
    /\ scale = <<2, 2>>
    /\ origin = "Center"
    /\ translation = <<10, 10, 0>>
    /\ outcome.at_position = <<-90, 60, 0>>

\* C16 (loader errors are typed values and publish nothing): the default
\* asset is set exactly when load returned Ok; a parse failure returns a
\* FileSvgError that wraps SvgError::SvgError and carries the path, a path
\* without a file name returns a FileSvgError that wraps
\* SvgError::InvalidFileName, and in both cases no asset is set.
C16_LoaderErrors ==
    /\ (asset # NoAsset) <=> (result = Ok)
    /\ result # NotReturned =>
          /\ ~bytes.ok =>
                 result = Err(FileSvgError(SvgError(bytes.error), path))
          /\ (bytes.ok /\ file_name(path) = NoFileName) =>
                 /\ result.type = "Err"
                 /\ result.error.error.variant = "InvalidFileName"
                 /\ result.error.path = path
          /\ result.type = "Err" => asset = NoAsset
          /\ result = Ok => file_name(path) = SomeName(asset.name)

\* load returned for bytes that parse and a path without a file name.
C16_Witness ==
    /\ result.type = "Err"
    /\ bytes.ok
    /\ file_name(path) = NoFileName
    /\ asset = NoAsset

\* C18 (a missing file name is an error value): when the file was read and
\* parsed and the builder's path has no file name, build returns Err.
C18_MissingNameIsErr ==
    (BuildRan /\ ReadAndParsed /\ file_name(file) = NoFileName) =>
        outcome.kind = "Err"

\* C21 (the one-slot deferred buffer is never lost or overwritten): the
\* deferred slot is always empty or holds a Begin event; a pull that finds
\* it filled returns exactly that event, empties the slot and consumes no
\* segment; and a pull leaves the slot filled only if it found it empty.
C21_DeferredSlot ==
    /\ [](deferred = None \/ deferred.type = "Begin")
    /\ [][deferred # None =>
              /\ next(Self, cmds).out = deferred
              /\ events' = Append(events, deferred)
              /\ deferred' = None
              /\ idx' = idx]_vars
    /\ [][deferred' # None => deferred = None]_vars

\* The deferred Begin of a hand-over was just returned: the stream ends with
\* End, Begin, the slot is empty, and segments are still to come.
C21_Witness ==
    /\ Len(events) >= 2
    /\ events[Len(events) - 1].type = "End"
    /\ Last(events).type = "Begin"
    /\ Last(events).at = first
    /\ deferred = None
    /\ ~Exhausted

\* C22 (the running transform does not influence the output): at every
\* iteration of build's loop, the descriptors the next render_node call
\* leaves are the same for any other value of the running transform handed
\* to it, and the descriptors so far are those of the same iterations
\* started from any other running transform.
C22_RunningTransformUnused ==
    \A other \in (ViewBoxTs \cup OtherRunning) :
        /\ \A again \in {descendants_loop(tree, other, cursor)} :
               again.descriptors = descriptors
        /\ cursor < Len(tree) =>
               \A here  \in {render_descendant(tree, view_ts, cursor + 1,
                                [transform   |-> transform,
                                 descriptors |-> descriptors,
                                 calls       |-> calls])} :
               \A there \in {render_descendant(tree, view_ts, cursor + 1,
                                [transform   |-> other,
                                 descriptors |-> descriptors,
                                 calls       |-> calls])} :
                   here.descriptors = there.descriptors

\* A path was rendered inside a group while the running transform handed to
\* it was not the identity.
C22_Witness ==
    /\ built
    /\ view_ts # Identity
    /\ \E k \in 1..Len(calls) :
           /\ calls[k].caller > 1
           /\ tree[calls[k].node].kind = "Path"
           /\ calls[k].handed # Identity
           /\ \E j \in 1..Len(descriptors) :
                  descriptors[j].node = calls[k].node

=============================================================================
